---- MODULE Spec2Model ----
(***************************************************************************)
(* A model of bot2.py: the start-up sequence of the main thread            *)
(* (ensure_files_exist, the two daemon threads, load_config,               *)
(* setup_client), the retrying send_message, the endless cycle loop of     *)
(* run_bot, and the keep-alive pinger and web server threads.              *)
(*                                                                         *)
(* Text is a sequence of one-character strings.  The message text          *)
(* (msg.txt, RENDER_MESSAGE_TEXT) is held run-length encoded, a sequence   *)
(* of runs [c |-> character, n |-> repetitions], so that texts around      *)
(* MAX_MESSAGE_LENGTH characters are values the model can hold.            *)
(***************************************************************************)
EXTENDS Integers, Sequences, FiniteSets, TLC

VARIABLES
    environ,        \* os.environ: variable name -> [set, val]
    files,          \* session.txt, gc.txt, msg.txt: name -> [exists, data]
    session_file,   \* session.json: "absent", "old" (left by an earlier run) or "fresh"
    pc,             \* position of the main thread
    exit_code,      \* exit status of the process once pc = "exited"
    web_pc,         \* web server thread
    pinger_pc,      \* keep-alive pinger thread
    http_gets,      \* whether the pinger has issued a GET
    session_id, thread_ids, message_text,   \* locals of run_bot
    cl,             \* the client handle: "none" or "authenticated"
    cycle, success_count, idx,              \* locals of run_bot's loop
    delay,          \* the inter-message or inter-cycle sleep in progress
    attempt, wait, result,                  \* send_message: parameter, sleep, return value
    outcomes,       \* kinds of outcome of the direct_send calls of the current top-level send
    sleeps,         \* sleeps of send_message during the current top-level send
    sent,           \* destinations send_message was called for in the current cycle
    returned_true,  \* top-level sends of the current cycle that returned True
    msg_sleeps,     \* inter-message sleeps started in the current cycle
    cycle_sleeps,   \* inter-cycle sleeps started so far
    report,         \* the last "CYCLE COMPLETE" report
    probe_raised,   \* how loading and probing the persisted session ended:
                    \* "none" (no session.json), "ok", "expired" or "other"
    login_raised,   \* how login_by_sessionid ended: "none" (not called), "ok" or "error"
    probe_calls, login_calls, dump_calls,   \* platform calls made by setup_client
    ended_by,       \* what ended the process
    created,        \* the files ensure_files_exist created from the environment
    caught          \* the exception send_message is handling or returned on ("none": none)

vars == <<environ, files, session_file, pc, exit_code, web_pc, pinger_pc, http_gets,
          session_id, thread_ids, message_text, cl, cycle, success_count, idx, delay,
          attempt, wait, result, outcomes, sleeps, sent, returned_true, msg_sleeps,
          cycle_sleeps, report, probe_raised, login_raised, probe_calls, login_calls,
          dump_calls, ended_by, created, caught>>

----------------------------------------------------------------------------
(* Configuration constants, bot2.py lines 18-25 *)

SESSION_TXT == "session.txt"
THREAD_FILE == "gc.txt"
MESSAGE_FILE == "msg.txt"
DELAY_RANGE == 60..120
CYCLE_DELAY == 300
MAX_RETRIES == 3
MAX_MESSAGE_LENGTH == 1000

(* Bounds of the model *)

MaxCycles == 2

----------------------------------------------------------------------------
(* Text: str.strip, str.split, str.join, readlines *)

Whitespace == {" ", "\n"}

RECURSIVE LStrip(_)
LStrip(s) ==
    IF s = <<>> THEN <<>>
    ELSE IF Head(s) \in Whitespace THEN LStrip(Tail(s)) ELSE s

RECURSIVE RStrip(_)
RStrip(s) ==
    IF s = <<>> THEN <<>>
    ELSE IF s[Len(s)] \in Whitespace THEN RStrip(SubSeq(s, 1, Len(s) - 1)) ELSE s

Strip(s) == RStrip(LStrip(s))

\* s.split(sep): the pieces of s between the occurrences of sep, empty pieces kept
RECURSIVE SplitFrom(_, _, _)
SplitFrom(s, sep, cur) ==
    IF s = <<>> THEN <<cur>>
    ELSE IF Head(s) = sep THEN <<cur>> \o SplitFrom(Tail(s), sep, <<>>)
    ELSE SplitFrom(Tail(s), sep, Append(cur, Head(s)))

Split(s, sep) == SplitFrom(s, sep, <<>>)

\* sep.join(parts)
RECURSIVE Join(_, _)
Join(parts, sep) ==
    IF parts = <<>> THEN <<>>
    ELSE IF Len(parts) = 1 THEN parts[1]
    ELSE parts[1] \o <<sep>> \o Join(Tail(parts), sep)

\* f.readlines(): the lines of s, each with its line terminator
RECURSIVE ReadLinesFrom(_, _)
ReadLinesFrom(s, cur) ==
    IF s = <<>> THEN (IF cur = <<>> THEN <<>> ELSE <<cur>>)
    ELSE IF Head(s) = "\n" THEN <<Append(cur, "\n")>> \o ReadLinesFrom(Tail(s), <<>>)
    ELSE ReadLinesFrom(Tail(s), Append(cur, Head(s)))

ReadLines(s) == ReadLinesFrom(s, <<>>)

\* as if the lines were kept as read, their terminators included
RECURSIVE StrippedNonBlank_Unstripped(_)
StrippedNonBlank_Unstripped(lines) ==
    IF lines = <<>> THEN <<>>
    ELSE IF Strip(Head(lines)) = <<>> THEN StrippedNonBlank_Unstripped(Tail(lines))
    ELSE <<Head(lines)>> \o StrippedNonBlank_Unstripped(Tail(lines))

\* [line.strip() for line in lines if line.strip()]
RECURSIVE StrippedNonBlank(_)
StrippedNonBlank(lines) ==
    IF lines = <<>> THEN <<>>
    ELSE IF Strip(Head(lines)) = <<>> THEN StrippedNonBlank(Tail(lines))
    ELSE <<Strip(Head(lines))>> \o StrippedNonBlank(Tail(lines))

(* Run-length encoded text: the same operations on runs *)

RECURSIVE RleLen(_)
RleLen(s) == IF s = <<>> THEN 0 ELSE Head(s).n + RleLen(Tail(s))

RECURSIVE RleLStrip(_)
RleLStrip(s) ==
    IF s = <<>> THEN <<>>
    ELSE IF Head(s).c \in Whitespace THEN RleLStrip(Tail(s)) ELSE s

RECURSIVE RleRStrip(_)
RleRStrip(s) ==
    IF s = <<>> THEN <<>>
    ELSE IF s[Len(s)].c \in Whitespace THEN RleRStrip(SubSeq(s, 1, Len(s) - 1)) ELSE s

RleStrip(s) == RleRStrip(RleLStrip(s))

\* s[:k]
RECURSIVE RleTake(_, _)
RleTake(s, k) ==
    IF s = <<>> \/ k <= 0 THEN <<>>
    ELSE IF Head(s).n <= k THEN <<Head(s)>> \o RleTake(Tail(s), k - Head(s).n)
    ELSE <<[c |-> Head(s).c, n |-> k]>>

LoadMessage_TruncateFirst(text) == RleStrip(RleTake(text, MAX_MESSAGE_LENGTH))

\* f.read().strip()[:MAX_MESSAGE_LENGTH]
LoadMessage(text) == RleTake(RleStrip(text), MAX_MESSAGE_LENGTH)

\* [line.strip() for line in f.readlines() if line.strip()]
LoadThreadIds(text) == StrippedNonBlank(ReadLines(text))

\* f.read().strip()
LoadSessionId(text) == Strip(text)

----------------------------------------------------------------------------
(* Exceptions.  The platform library's exceptions all derive from          *)
(* ClientError; "Exception" stands for any other exception.                *)

PlatformErrors ==
    {"ClientError", "ClientLoginRequired", "ChallengeRequired", "FeedbackRequired",
     "SentryBlock", "PleaseWaitFewMinutes", "LoginRequired"}

IsInstance(e, class) ==
    \/ e = class
    \/ class = "ClientError" /\ e \in PlatformErrors
    \/ class = "Exception"

\* whether "except (classes)" catches e
Catches(classes, e) == \E class \in classes : IsInstance(e, class)

----------------------------------------------------------------------------
(* Initial states: the environment and the files the process starts with *)

EnvNames == {"RENDER_SESSION_ID", "RENDER_MESSAGE_TEXT", "RENDER_THREAD_IDS"}
FileNames == {SESSION_TXT, THREAD_FILE, MESSAGE_FILE}

Unset == [set |-> FALSE, val |-> <<>>]
Absent == [exists |-> FALSE, data |-> <<>>]

Run(ch, k) == [c |-> ch, n |-> k]

InitProcess ==
    /\ pc = "ensure_files"
    /\ exit_code = -1
    /\ web_pc = "not_started"
    /\ pinger_pc = "not_started"
    /\ http_gets = FALSE
    /\ session_id = <<>>
    /\ thread_ids = <<>>
    /\ message_text = <<>>
    /\ cl = "none"
    /\ cycle = 0
    /\ success_count = 0
    /\ idx = 0
    /\ delay = 0
    /\ attempt = 0
    /\ wait = 0
    /\ result = FALSE
    /\ outcomes = <<>>
    /\ sleeps = <<>>
    /\ sent = <<>>
    /\ returned_true = 0
    /\ msg_sleeps = 0
    /\ cycle_sleeps = 0
    /\ report = [cycle |-> 0, successes |-> 0, total |-> 0]
    /\ probe_raised = "none"
    /\ login_raised = "none"
    /\ probe_calls = 0
    /\ login_calls = 0
    /\ dump_calls = 0
    /\ ended_by = "none"
    /\ created = {}
    /\ caught = "none"

\* Each of the three inputs comes from a source: an environment variable and a file
InitConfig(sessionSources, threadSources, messageSources) ==
    /\ \E ss \in sessionSources, ts \in threadSources, ms \in messageSources :
          /\ environ = [name \in EnvNames |->
                           IF name = "RENDER_SESSION_ID" THEN ss.env
                           ELSE IF name = "RENDER_THREAD_IDS" THEN ts.env ELSE ms.env]
          /\ files = [name \in FileNames |->
                         IF name = SESSION_TXT THEN ss.file
                         ELSE IF name = THREAD_FILE THEN ts.file ELSE ms.file]
    /\ session_file \in {"absent", "old"}

Env(value) == [set |-> TRUE, val |-> value]
File(content) == [exists |-> TRUE, data |-> content]
Source(e, f) == [env |-> e, file |-> f]

\* The whole program is explored from these inputs: each input missing, blank or
\* given, the destinations given by the file (two, around a blank line) or by the
\* environment (three)
SessionSources ==
    {Source(Unset, Absent), Source(Unset, File(<<" ", "\n">>)),
     Source(Unset, File(<<"t", "\n">>))}
ThreadSources ==
    {Source(Unset, Absent), Source(Unset, File(<<"\n", " ">>)),
     Source(Unset, File(<<"a", "\n", "\n", "b", "\n">>)),
     Source(Env(<<"a", ",", "b", ",", "c">>), Absent)}
MessageSources ==
    {Source(Unset, Absent), Source(Unset, File(<<Run("\n", 1)>>)),
     Source(Unset, File(<<Run("h", 2), Run("\n", 1)>>))}

Init ==
    /\ InitProcess
    /\ InitConfig(SessionSources, ThreadSources, MessageSources)

----------------------------------------------------------------------------
(* ensure_files_exist, lines 59-79 *)

\* the content written to gc.txt: "\n".join(value.split(","))
ThreadFileFromEnv(value) == Join(Split(value, ","), "\n")

\* as if the file were written whenever the variable is set
SeededFile_Overwrite(env, file, content) ==
    IF env.set THEN [exists |-> TRUE, data |-> content] ELSE file

SeededFile(env, file, content) ==
    IF env.set /\ ~file.exists THEN [exists |-> TRUE, data |-> content] ELSE file

EnsuredFiles(env, fs) ==
    [name \in FileNames |->
        IF name = SESSION_TXT
        THEN SeededFile(env["RENDER_SESSION_ID"], fs[name], env["RENDER_SESSION_ID"].val)
        ELSE IF name = MESSAGE_FILE
        THEN SeededFile(env["RENDER_MESSAGE_TEXT"], fs[name], env["RENDER_MESSAGE_TEXT"].val)
        ELSE SeededFile(env["RENDER_THREAD_IDS"], fs[name],
                        ThreadFileFromEnv(env["RENDER_THREAD_IDS"].val))]

EnsureFilesExist ==
    /\ pc = "ensure_files"
    /\ files' = EnsuredFiles(environ, files)
    /\ created' = {name \in FileNames : ~files[name].exists /\ files'[name].exists}
    /\ pc' = "start_web"
    /\ UNCHANGED <<environ, caught, session_file, exit_code, web_pc, pinger_pc, http_gets,
                   session_id, thread_ids, message_text, cl, cycle, success_count, idx,
                   delay, attempt, wait, result, outcomes, sleeps, sent, returned_true,
                   msg_sleeps, cycle_sleeps, report, probe_raised, login_raised, probe_calls,
                   login_calls, dump_calls, ended_by>>

(* The daemon threads, lines 39-54 and 224-232 *)

StartWebThread ==
    /\ pc = "start_web"
    /\ web_pc' = "serving"
    /\ pc' = "start_pinger"
    /\ UNCHANGED <<environ, created, caught, files, session_file, exit_code, pinger_pc, http_gets,
                   session_id, thread_ids, message_text, cl, cycle, success_count, idx,
                   delay, attempt, wait, result, outcomes, sleeps, sent, returned_true,
                   msg_sleeps, cycle_sleeps, report, probe_raised, login_raised, probe_calls,
                   login_calls, dump_calls, ended_by>>

StartPinger ==
    /\ pc = "start_pinger"
    /\ pinger_pc' = "running"
    /\ pc' = "load_config"
    /\ UNCHANGED <<environ, created, caught, files, session_file, exit_code, web_pc, http_gets,
                   session_id, thread_ids, message_text, cl, cycle, success_count, idx,
                   delay, attempt, wait, result, outcomes, sleeps, sent, returned_true,
                   msg_sleeps, cycle_sleeps, report, probe_raised, login_raised, probe_calls,
                   login_calls, dump_calls, ended_by>>

\* the web server answers a health check: a constant reply, no state
HealthCheck ==
    /\ web_pc = "serving"
    /\ pc # "exited"
    /\ UNCHANGED vars

\* one round of the pinger's loop: the GET (answered or failing), then sleep(300)
KeepAlivePing ==
    /\ pinger_pc = "running"
    /\ pc # "exited"
    /\ \E response \in {"200", "ConnectionError"} : http_gets' = TRUE
    /\ UNCHANGED <<environ, created, caught, files, session_file, pc, exit_code, web_pc, pinger_pc,
                   session_id, thread_ids, message_text, cl, cycle, success_count, idx,
                   delay, attempt, wait, result, outcomes, sleeps, sent, returned_true,
                   msg_sleeps, cycle_sleeps, report, probe_raised, login_raised, probe_calls,
                   login_calls, dump_calls, ended_by>>

----------------------------------------------------------------------------
(* load_config, lines 81-113: the configuration, or exit(1) *)

\* as if the check of the message, lines 106-108, were missing
LoadedConfig_MessageUnchecked(fs) ==
    LET sid == LoadSessionId(fs[SESSION_TXT].data)
        tids == LoadThreadIds(fs[THREAD_FILE].data)
        msg == LoadMessage(fs[MESSAGE_FILE].data)
        failed == [ok |-> FALSE, session_id |-> <<>>, thread_ids |-> <<>>,
                   message_text |-> <<>>]
    IN  IF \E name \in FileNames : ~fs[name].exists THEN failed
        ELSE IF sid = <<>> THEN failed
        ELSE IF tids = <<>> THEN failed
        ELSE [ok |-> TRUE, session_id |-> sid, thread_ids |-> tids, message_text |-> msg]

LoadedConfig(fs) ==
    LET sid == LoadSessionId(fs[SESSION_TXT].data)
        tids == LoadThreadIds(fs[THREAD_FILE].data)
        msg == LoadMessage(fs[MESSAGE_FILE].data)
        failed == [ok |-> FALSE, session_id |-> <<>>, thread_ids |-> <<>>,
                   message_text |-> <<>>]
    IN  IF \E name \in FileNames : ~fs[name].exists THEN failed
        ELSE IF sid = <<>> THEN failed
        ELSE IF tids = <<>> THEN failed
        ELSE IF msg = <<>> THEN failed
        ELSE [ok |-> TRUE, session_id |-> sid, thread_ids |-> tids, message_text |-> msg]

LoadConfig ==
    /\ pc = "load_config"
    /\ LET config == LoadedConfig(files)
       IN  IF config.ok
           THEN /\ session_id' = config.session_id
                /\ thread_ids' = config.thread_ids
                /\ message_text' = config.message_text
                /\ pc' = "setup_client"
                /\ UNCHANGED <<exit_code, ended_by>>
           ELSE /\ pc' = "exited"
                /\ exit_code' = 1
                /\ ended_by' = "exit"
                /\ UNCHANGED <<session_id, thread_ids, message_text>>
    /\ UNCHANGED <<environ, created, caught, files, session_file, web_pc, pinger_pc, http_gets, cl, cycle,
                   success_count, idx, delay, attempt, wait, result, outcomes, sleeps,
                   sent, returned_true, msg_sleeps, cycle_sleeps, report, probe_raised, login_raised,
                   probe_calls, login_calls, dump_calls>>

----------------------------------------------------------------------------
(* setup_client, lines 118-142 *)

LoadOutcomes == {"ok", "Exception"}
ProbeOutcomes ==
    {"ok", "ClientLoginRequired", "ChallengeRequired", "LoginRequired", "ClientError",
     "Exception"}
LoginOutcomes == {"ok", "ClientError", "Exception"}

\* as if the first handler caught the base class of the platform's errors
SessionExpired_AnyClientError == {"ClientError"}

SessionExpired_Narrow == {"ClientLoginRequired", "ChallengeRequired"}

\* except (ClientLoginRequired, ChallengeRequired, LoginRequired), line 130
SessionExpired == {"ClientLoginRequired", "ChallengeRequired", "LoginRequired"}

\* as if session.json were rewritten after a successful probe too
SetupClientRun_DumpAfterProbe(sf, load, probe, login) ==
    LET tried == sf # "absent"
        raised == IF ~tried THEN "none" ELSE IF load # "ok" THEN load ELSE probe
        probes == IF tried /\ load = "ok" THEN 1 ELSE 0
    IN  IF tried /\ raised = "ok"
        THEN [end |-> "return", session_file |-> "fresh", raised |-> raised,
              probes |-> probes, logins |-> 0, dumps |-> 1]
        ELSE IF tried /\ ~Catches(SessionExpired, raised)
        THEN [end |-> "raise", session_file |-> sf, raised |-> raised,
              probes |-> probes, logins |-> 0, dumps |-> 0]
        ELSE IF login = "ok"
        THEN [end |-> "return", session_file |-> "fresh", raised |-> raised,
              probes |-> probes, logins |-> 1, dumps |-> 1]
        ELSE [end |-> "exit", session_file |-> sf, raised |-> raised,
              probes |-> probes, logins |-> 1, dumps |-> 0]

\* as if a failed credential login were tried a second time before exit(1)
SetupClientRun_LoginTwice(sf, load, probe, login) ==
    LET tried == sf # "absent"
        raised == IF ~tried THEN "none" ELSE IF load # "ok" THEN load ELSE probe
        probes == IF tried /\ load = "ok" THEN 1 ELSE 0
    IN  IF tried /\ raised = "ok"
        THEN [end |-> "return", session_file |-> sf, raised |-> raised,
              probes |-> probes, logins |-> 0, dumps |-> 0]
        ELSE IF tried /\ ~Catches(SessionExpired, raised)
        THEN [end |-> "raise", session_file |-> sf, raised |-> raised,
              probes |-> probes, logins |-> 0, dumps |-> 0]
        ELSE IF login = "ok"
        THEN [end |-> "return", session_file |-> "fresh", raised |-> raised,
              probes |-> probes, logins |-> 1, dumps |-> 1]
        ELSE [end |-> "exit", session_file |-> sf, raised |-> raised,
              probes |-> probes, logins |-> 2, dumps |-> 0]

\* Reading and writing local files (open, dump_settings) is taken to succeed;
\* load_settings may reject the content of session.json, and the calls to the
\* platform may raise.
\* The run of setup_client when session.json is sf and load_settings,
\* get_timeline_feed and login_by_sessionid end as load, probe and login:
\* how it ends ("return", "exit" for exit(1), "raise" for an exception that
\* propagates), session.json afterwards, and the calls made.
SetupClientRun(sf, load, probe, login) ==
    LET tried == sf # "absent"
        raised == IF ~tried THEN "none" ELSE IF load # "ok" THEN load ELSE probe
        probes == IF tried /\ load = "ok" THEN 1 ELSE 0
    IN  IF tried /\ raised = "ok"
        THEN [end |-> "return", session_file |-> sf, raised |-> raised,
              probes |-> probes, logins |-> 0, dumps |-> 0]
        ELSE IF tried /\ ~Catches(SessionExpired, raised)
        THEN [end |-> "raise", session_file |-> sf, raised |-> raised,
              probes |-> probes, logins |-> 0, dumps |-> 0]
        ELSE IF login = "ok"
        THEN [end |-> "return", session_file |-> "fresh", raised |-> raised,
              probes |-> probes, logins |-> 1, dumps |-> 1]
        ELSE [end |-> "exit", session_file |-> sf, raised |-> raised,
              probes |-> probes, logins |-> 1, dumps |-> 0]

\* How the load and the probe ended, as the cases are named: the entry of
\* probe_raised.  It is read off the exception raised, not off the handler that ran.
ExpiredClass == {"ClientLoginRequired", "ChallengeRequired", "LoginRequired"}
ProbeKind(raised) ==
    IF raised \in {"none", "ok"} THEN raised
    ELSE IF raised \in ExpiredClass THEN "expired"
    ELSE "other"

SetupClient ==
    /\ pc = "setup_client"
    /\ \E load \in LoadOutcomes, probe \in ProbeOutcomes, login \in LoginOutcomes :
          LET run == SetupClientRun(session_file, load, probe, login)
          IN  /\ session_file' = run.session_file
              /\ probe_raised' = ProbeKind(run.raised)
              /\ login_raised' = IF run.logins = 0 THEN "none"
                                 ELSE IF login = "ok" THEN "ok" ELSE "error"
              /\ probe_calls' = probe_calls + run.probes
              /\ login_calls' = login_calls + run.logins
              /\ dump_calls' = dump_calls + run.dumps
              /\ IF run.end = "return"
                 THEN /\ cl' = "authenticated"
                      /\ pc' = "cycle_start"
                      /\ UNCHANGED <<exit_code, ended_by>>
                 ELSE IF run.end = "exit"
                 THEN /\ pc' = "exited"
                      /\ exit_code' = 1
                      /\ ended_by' = "exit"
                      /\ UNCHANGED cl
                 \* the exception reaches "except Exception" of the main block,
                 \* which prints it; the script then ends
                 ELSE /\ pc' = "exited"
                      /\ exit_code' = 0
                      /\ ended_by' = "Exception"
                      /\ UNCHANGED cl
    /\ UNCHANGED <<environ, created, caught, files, web_pc, pinger_pc, http_gets, session_id, thread_ids,
                   message_text, cycle, success_count, idx, delay, attempt, wait, result,
                   outcomes, sleeps, sent, returned_true, msg_sleeps, cycle_sleeps,
                   report>>

----------------------------------------------------------------------------
(* send_message, lines 147-168 *)

SendOutcomes ==
    {"ok", "FeedbackRequired", "SentryBlock", "PleaseWaitFewMinutes", "ClientError",
     "LoginRequired", "Exception"}

\* What a direct_send call did, as the failure classes are named: a log entry of
\* outcomes.  It is read off the exception raised, not off the handler that ran.
RateLimitClass == {"FeedbackRequired", "SentryBlock", "PleaseWaitFewMinutes"}
GenericClientClass == {"ClientError", "LoginRequired"}
OutcomeKind(e) ==
    IF e = "ok" THEN "ok"
    ELSE IF e \in RateLimitClass THEN "rate_limit"
    ELSE IF e \in GenericClientClass THEN "client_error"
    ELSE "other"

\* as if "except Exception" came under the client errors' clause
SendHandler_CatchAll(e) ==
    IF e = "ok" THEN "none"
    ELSE IF Catches({"FeedbackRequired", "SentryBlock", "PleaseWaitFewMinutes"}, e)
    THEN "rate_limit"
    ELSE "client_error"

\* the except clause that handles e, in the order of the clauses
SendHandler(e) ==
    IF e = "ok" THEN "none"
    ELSE IF Catches({"FeedbackRequired", "SentryBlock", "PleaseWaitFewMinutes"}, e)
    THEN "rate_limit"
    ELSE IF Catches({"ClientError", "LoginRequired"}, e) THEN "client_error"
    ELSE "unexpected"

\* as if the test were attempt <= MAX_RETRIES + 1
MayRetry_OneMore(a) == a <= MAX_RETRIES + 1
\* as if the wait after a rate limit did not grow with the attempt
RateLimitWait_Flat(a) == 120

MayRetry_OneFewer(a) == a < MAX_RETRIES
MayRetry(a) == a <= MAX_RETRIES

RateLimitWait_Exponential(a) == 120 * 2 ^ (a - 1)
RateLimitWait(a) == 120 * a

ClientErrorWait == 10

\* What one activation of send_message does once direct_send has ended: it
\* returns value, or sleeps wait seconds and calls itself with attempt + 1
Return(v) == [retry |-> FALSE, value |-> v, wait |-> 0]
SleepAndRetry(w) == [retry |-> TRUE, value |-> FALSE, wait |-> w]

OnSuccess_NoValue == Return(FALSE)

\* lines 150-151
OnSuccess == Return(TRUE)

\* lines 152-159
OnRateLimit(a) == IF MayRetry(a) THEN SleepAndRetry(RateLimitWait(a)) ELSE Return(FALSE)

\* lines 160-165
OnClientError(a) == IF MayRetry(a) THEN SleepAndRetry(ClientErrorWait) ELSE Return(FALSE)

\* lines 166-168
OnUnexpected == Return(FALSE)

SendStep(e, a) ==
    LET handler == SendHandler(e)
    IN  IF handler = "none" THEN OnSuccess
        ELSE IF handler = "rate_limit" THEN OnRateLimit(a)
        ELSE IF handler = "client_error" THEN OnClientError(a)
        ELSE OnUnexpected

\* run_bot calls send_message(cl, message_text, thread_id), line 200
CallSend ==
    /\ pc = "call_send"
    /\ attempt' = 1
    /\ outcomes' = <<>>
    /\ sleeps' = <<>>
    /\ sent' = Append(sent, thread_ids[idx])
    /\ pc' = "direct_send"
    /\ UNCHANGED <<environ, created, caught, files, session_file, exit_code, web_pc, pinger_pc, http_gets,
                   session_id, thread_ids, message_text, cl, cycle, success_count, idx,
                   delay, wait, result, returned_true, msg_sleeps, cycle_sleeps, report,
                   probe_raised, login_raised, probe_calls, login_calls, dump_calls, ended_by>>

\* cl.direct_send and the handling of its outcome, up to the return or the sleep
DirectSend ==
    /\ pc = "direct_send"
    /\ \E e \in SendOutcomes :
          LET step == SendStep(e, attempt)
          IN  /\ outcomes' = Append(outcomes, OutcomeKind(e))
              /\ caught' = IF e = "ok" THEN "none" ELSE e
              /\ IF step.retry
                 THEN /\ wait' = step.wait
                      /\ sleeps' = Append(sleeps, step.wait)
                      /\ pc' = "backoff"
                      /\ UNCHANGED <<result, returned_true>>
                 ELSE /\ result' = step.value
                      /\ returned_true' = returned_true + (IF step.value THEN 1 ELSE 0)
                      /\ pc' = "send_returned"
                      /\ UNCHANGED <<wait, sleeps>>
    /\ UNCHANGED <<environ, created, files, session_file, exit_code, web_pc, pinger_pc, http_gets,
                   session_id, thread_ids, message_text, cl, cycle, success_count, idx,
                   delay, attempt, sent, msg_sleeps, cycle_sleeps, report, probe_raised, login_raised,
                   probe_calls, login_calls, dump_calls, ended_by>>

\* time.sleep(wait) ends: return send_message(cl, message, thread_id, attempt+1)
Retry ==
    /\ pc = "backoff"
    /\ attempt' = attempt + 1
    /\ wait' = 0
    /\ pc' = "direct_send"
    /\ caught' = "none"
    /\ UNCHANGED <<environ, created, files, session_file, exit_code, web_pc, pinger_pc, http_gets,
                   session_id, thread_ids, message_text, cl, cycle, success_count, idx,
                   delay, result, outcomes, sleeps, sent, returned_true, msg_sleeps,
                   cycle_sleeps, report, probe_raised, login_raised, probe_calls, login_calls,
                   dump_calls, ended_by>>

----------------------------------------------------------------------------
(* run_bot's loop, lines 191-215 *)

\* cycle += 1; success_count = 0; the for loop starts
StartCycle ==
    /\ pc = "cycle_start"
    /\ cycle < MaxCycles
    /\ cycle' = cycle + 1
    /\ success_count' = 0
    /\ sent' = <<>>
    /\ returned_true' = 0
    /\ msg_sleeps' = 0
    /\ IF thread_ids = <<>>
       THEN idx' = 0 /\ pc' = "cycle_complete"
       ELSE idx' = 1 /\ pc' = "call_send"
    /\ UNCHANGED <<environ, created, caught, files, session_file, exit_code, web_pc, pinger_pc, http_gets,
                   session_id, thread_ids, message_text, cl, delay, attempt, wait, result,
                   outcomes, sleeps, cycle_sleeps, report, probe_raised, login_raised, probe_calls,
                   login_calls, dump_calls, ended_by>>

CountSuccess_Every(count, value) == count + 1

\* success_count after send_message returned value
CountSuccess(count, value) == IF value THEN count + 1 ELSE count

\* lines 200-208: count the result, draw the delay, sleep
AfterSend ==
    /\ pc = "send_returned"
    /\ success_count' = CountSuccess(success_count, result)
    /\ \E d \in DELAY_RANGE : delay' = d
    /\ msg_sleeps' = msg_sleeps + 1
    /\ attempt' = 0
    /\ result' = FALSE
    /\ outcomes' = <<>>
    /\ sleeps' = <<>>
    /\ pc' = "msg_sleep"
    /\ caught' = "none"
    /\ UNCHANGED <<environ, created, files, session_file, exit_code, web_pc, pinger_pc, http_gets,
                   session_id, thread_ids, message_text, cl, cycle, idx, wait, sent,
                   returned_true, cycle_sleeps, report, probe_raised, login_raised, probe_calls,
                   login_calls, dump_calls, ended_by>>

\* as if the for loop stopped after its first destination
HasNext_Never(i, ids) == FALSE

HasNext_SkipLast(i, ids) == i + 1 < Len(ids)

\* whether the for loop over thread_ids has an entry after the i-th
HasNext(i, ids) == i < Len(ids)

\* time.sleep(delay) ends: the next destination, or the end of the pass
NextDestination ==
    /\ pc = "msg_sleep"
    /\ delay' = 0
    /\ IF HasNext(idx, thread_ids)
       THEN idx' = idx + 1 /\ pc' = "call_send"
       ELSE idx' = idx /\ pc' = "cycle_complete"
    /\ UNCHANGED <<environ, created, caught, files, session_file, exit_code, web_pc, pinger_pc, http_gets,
                   session_id, thread_ids, message_text, cl, cycle, success_count,
                   attempt, wait, result, outcomes, sleeps, sent, returned_true,
                   msg_sleeps, cycle_sleeps, report, probe_raised, login_raised, probe_calls,
                   login_calls, dump_calls, ended_by>>

\* lines 210-215: the report, then time.sleep(CYCLE_DELAY)
CycleComplete ==
    /\ pc = "cycle_complete"
    /\ report' = [cycle |-> cycle, successes |-> success_count,
                  total |-> Len(thread_ids)]
    /\ delay' = CYCLE_DELAY
    /\ cycle_sleeps' = cycle_sleeps + 1
    /\ pc' = "cycle_sleep"
    /\ UNCHANGED <<environ, created, caught, files, session_file, exit_code, web_pc, pinger_pc, http_gets,
                   session_id, thread_ids, message_text, cl, cycle, success_count, idx,
                   attempt, wait, result, outcomes, sleeps, sent, returned_true,
                   msg_sleeps, probe_raised, login_raised, probe_calls, login_calls, dump_calls,
                   ended_by>>

\* time.sleep(CYCLE_DELAY) ends: back to "while True"
CycleSleepDone ==
    /\ pc = "cycle_sleep"
    /\ delay' = 0
    /\ pc' = "cycle_start"
    /\ UNCHANGED <<environ, created, caught, files, session_file, exit_code, web_pc, pinger_pc, http_gets,
                   session_id, thread_ids, message_text, cl, cycle, success_count, idx,
                   attempt, wait, result, outcomes, sleeps, sent, returned_true,
                   msg_sleeps, cycle_sleeps, report, probe_raised, login_raised, probe_calls,
                   login_calls, dump_calls, ended_by>>

(* The main block, lines 234-240: KeyboardInterrupt while run_bot runs is   *)
(* caught and printed, and the script ends.  An interrupt before the try   *)
(* block is entered is not modelled.                                       *)

InRunBot ==
    pc \in {"load_config", "setup_client", "cycle_start", "call_send", "direct_send",
            "backoff", "send_returned", "msg_sleep", "cycle_complete", "cycle_sleep"}

KeyboardInterrupt ==
    /\ InRunBot
    /\ pc' = "exited"
    /\ exit_code' = 0
    /\ ended_by' = "KeyboardInterrupt"
    /\ UNCHANGED <<environ, created, caught, files, session_file, web_pc, pinger_pc, http_gets,
                   session_id, thread_ids, message_text, cl, cycle, success_count, idx,
                   delay, attempt, wait, result, outcomes, sleeps, sent, returned_true,
                   msg_sleeps, cycle_sleeps, report, probe_raised, login_raised, probe_calls,
                   login_calls, dump_calls>>

----------------------------------------------------------------------------

Next ==
    \/ EnsureFilesExist
    \/ StartWebThread
    \/ StartPinger
    \/ HealthCheck
    \/ KeepAlivePing
    \/ LoadConfig
    \/ SetupClient
    \/ StartCycle
    \/ CallSend
    \/ DirectSend
    \/ Retry
    \/ AfterSend
    \/ NextDestination
    \/ CycleComplete
    \/ CycleSleepDone
    \/ KeyboardInterrupt

Spec == Init /\ [][Next]_vars

----------------------------------------------------------------------------
(* The whole program under a fair schedule of the main thread: each of its *)
(* calls and sleeps returns, so the step it stands before is taken unless  *)
(* the interrupt arrives.  One complete configuration, two destinations,   *)
(* a persisted session to load.                                            *)

SessionSourcesFair == {Source(Unset, File(<<"t", "\n">>))}
ThreadSourcesFair == {Source(Unset, File(<<"a", "\n", "\n", "b", "\n">>))}
MessageSourcesFair == {Source(Unset, File(<<Run("h", 2), Run("\n", 1)>>))}

InitFair ==
    /\ InitProcess
    /\ InitConfig(SessionSourcesFair, ThreadSourcesFair, MessageSourcesFair)
    /\ session_file = "old"

\* the steps of the main thread, the interrupt apart
MainThread ==
    \/ EnsureFilesExist
    \/ StartWebThread
    \/ StartPinger
    \/ LoadConfig
    \/ SetupClient
    \/ StartCycle
    \/ CallSend
    \/ DirectSend
    \/ Retry
    \/ AfterSend
    \/ NextDestination
    \/ CycleComplete
    \/ CycleSleepDone

SpecFair == InitFair /\ [][Next]_vars /\ WF_vars(MainThread)

----------------------------------------------------------------------------
(* The start of the program, up to the return of load_config, explored     *)
(* from message texts of up to MaxRuns runs around MAX_MESSAGE_LENGTH      *)
(* characters                                                              *)

MaxRuns == 2

RunLengths == {1, MAX_MESSAGE_LENGTH - 1, MAX_MESSAGE_LENGTH, MAX_MESSAGE_LENGTH + 1}
Runs == [c : {"h", " "}, n : RunLengths]
MessageTexts == UNION {[1..k -> Runs] : k \in 0..MaxRuns}

SessionSourcesLoad ==
    {Source(Unset, File(<<"t", "\n">>)), Source(Env(<<"t">>), Absent)}
ThreadSourcesLoad ==
    {Source(Unset, File(<<"a", "\n", "\n", "b", "\n">>)),
     Source(Env(<<"a", ",", "b", ",", "c">>), Absent)}
MessageSourcesLoad ==
    {Source(Unset, Absent)}
    \cup {Source(Unset, File(text)) : text \in MessageTexts}
    \cup {Source(Env(text), Absent) : text \in MessageTexts}
    \cup {Source(Env(<<Run("e", 1)>>), File(text)) : text \in MessageTexts}

InitLoad ==
    /\ InitProcess
    /\ InitConfig(SessionSourcesLoad, ThreadSourcesLoad, MessageSourcesLoad)

NextLoad ==
    \/ EnsureFilesExist
    \/ StartWebThread
    \/ StartPinger
    \/ HealthCheck
    \/ KeepAlivePing
    \/ LoadConfig

SpecLoad == InitLoad /\ [][NextLoad]_vars

----------------------------------------------------------------------------
(* The start-up again, from every short destination text, in gc.txt or in  *)
(* RENDER_THREAD_IDS, with and without the other: what ensure_files_exist  *)
(* writes and which destinations load_config returns                       *)

MaxTextLen == 3

TextChars == {"a", "b", ",", " ", "\n"}
ThreadTexts == UNION {[1..k -> TextChars] : k \in 0..MaxTextLen}

SessionSourcesThreads ==
    {Source(Env(<<"u">>), File(<<"t", "\n">>)), Source(Env(<<"t">>), Absent)}
ThreadSourcesThreads ==
    {Source(Unset, Absent)}
    \cup {Source(Unset, File(text)) : text \in ThreadTexts}
    \cup {Source(Env(text), Absent) : text \in ThreadTexts}
    \cup {Source(Env(<<"c", ",", "d">>), File(text)) : text \in ThreadTexts}
MessageSourcesThreads ==
    {Source(Unset, Absent), Source(Unset, File(<<Run("h", 2), Run("\n", 1)>>))}

InitThreads ==
    /\ InitProcess
    /\ InitConfig(SessionSourcesThreads, ThreadSourcesThreads, MessageSourcesThreads)

SpecThreads == InitThreads /\ [][NextLoad]_vars

----------------------------------------------------------------------------
(* Properties *)

Last(seq) == seq[Len(seq)]
All(seq, kind) == \A i \in 1..Len(seq) : seq[i] = kind
InSend == pc \in {"direct_send", "backoff", "send_returned"}

\* a text of whitespace only (or empty), whichever way it is held
AllBlank(text) == \A i \in 1..Len(text) : text[i] \in Whitespace
AllBlankRuns(text) == \A i \in 1..Len(text) : text[i].c \in Whitespace

\* the configuration the files hold lacks the credential, the destinations or the message
ConfigIncomplete ==
    \/ \E name \in FileNames : ~files[name].exists
    \/ AllBlank(files[SESSION_TXT].data)
    \/ AllBlank(files[THREAD_FILE].data)
    \/ AllBlankRuns(files[MESSAGE_FILE].data)

C2_ClientErrorRetries ==
    (InSend /\ All(outcomes, "client_error")) =>
        /\ sleeps = [i \in 1..Len(sleeps) |-> 10]
        /\ pc = "direct_send" => attempt <= 4 /\ Len(outcomes) = attempt - 1
                                 /\ Len(sleeps) = Len(outcomes)
        /\ pc = "backoff" => wait = 10 /\ Len(sleeps) = Len(outcomes)
        /\ pc = "send_returned" =>
              /\ Len(outcomes) = 4
              /\ sleeps = <<10, 10, 10>>
              /\ result = FALSE

C2_Witness ==
    /\ pc = "send_returned"
    /\ outcomes = <<"client_error", "client_error", "client_error", "client_error">>
    /\ sleeps = <<10, 10, 10>>

\* C3: when the first direct_send succeeds, send_message returns True at once:
\* one direct_send call, no sleep, no retry.
C3_FirstAttemptSuccess ==
    (InSend /\ outcomes # <<>> /\ outcomes[1] = "ok") =>
        /\ pc = "send_returned"
        /\ result = TRUE
        /\ outcomes = <<"ok">>
        /\ sleeps = <<>>
        /\ attempt = 1

C3_Witness ==
    /\ pc = "send_returned"
    /\ outcomes = <<"ok">>
    /\ result = TRUE

\* C4: a direct_send that raises an exception outside the rate-limit and client
\* error classes makes send_message return False at once, at any attempt: no sleep
\* and no direct_send follows it, and the exception does not leave send_message.
C4_UnexpectedNotRetried ==
    (\E i \in 1..Len(outcomes) : outcomes[i] = "other") =>
        /\ Last(outcomes) = "other"
        /\ Len(sleeps) = Len(outcomes) - 1
        /\ result = FALSE
        /\ pc \in {"send_returned", "exited"}
        /\ pc = "exited" => ended_by = "KeyboardInterrupt"

C4_Witness ==
    /\ pc = "send_returned"
    /\ outcomes = <<"rate_limit", "client_error", "other">>
    /\ result = FALSE

\* C5: a cycle reaches its inter-cycle sleep only after send_message was called for
\* all N destinations, whatever the sends returned, and the success count it
\* reports is the number of this cycle's sends that returned True.
C5_CycleCountsSuccesses ==
    pc = "cycle_sleep" =>
        /\ sent = thread_ids
        /\ report.cycle = cycle
        /\ report.total = Len(thread_ids)
        /\ report.successes = returned_true

C5_Witness ==
    /\ pc = "cycle_sleep"
    /\ cycle = 2
    /\ Len(thread_ids) = 3
    /\ report = [cycle |-> 2, successes |-> 1, total |-> 3]

\* C6: in each cycle send_message is called once per entry of the destination list,
\* in list order, each call followed by one inter-message sleep of 60..120 s; after
\* the N-th such sleep comes one inter-cycle sleep of 300 s; the cycle number is 1
\* on the first pass and one more on each following pass.
C6_CycleSchedule ==
    /\ pc \in {"call_send", "direct_send", "backoff", "send_returned", "msg_sleep",
               "cycle_complete", "cycle_sleep"} =>
          /\ cycle = cycle_sleeps + (IF pc = "cycle_sleep" THEN 0 ELSE 1)
          /\ sent = SubSeq(thread_ids, 1, Len(sent))
    /\ pc = "cycle_start" => cycle = cycle_sleeps
    /\ pc = "call_send" => Len(sent) = idx - 1 /\ msg_sleeps = idx - 1
    /\ InSend => Len(sent) = idx /\ msg_sleeps = idx - 1
    /\ pc = "msg_sleep" => Len(sent) = idx /\ msg_sleeps = idx /\ delay \in 60..120
    /\ pc = "cycle_complete" => sent = thread_ids /\ msg_sleeps = Len(thread_ids)
    /\ pc = "cycle_sleep" =>
          /\ sent = thread_ids
          /\ msg_sleeps = Len(thread_ids)
          /\ delay = 300
          /\ report.cycle = cycle

\* three destinations, all sends succeeding: the first report, then cycle 2
C6_Witness ==
    /\ pc = "call_send"
    /\ cycle = 2
    /\ cycle_sleeps = 1
    /\ thread_ids = << <<"a">>, <<"b">>, <<"c">> >>
    /\ report = [cycle |-> 1, successes |-> 3, total |-> 3]

\* C7: when the credential, the destination list or the message is missing or
\* blank, load_config ends the process with exit(1): setup_client and send_message
\* are never entered and no platform call is made.
C7_IncompleteConfigAborts ==
    (pc # "ensure_files" /\ ConfigIncomplete) =>
        /\ pc \in {"start_web", "start_pinger", "load_config", "exited"}
        /\ pc = "exited" /\ ended_by # "KeyboardInterrupt" =>
              ended_by = "exit" /\ exit_code = 1
        /\ cl = "none"
        /\ probe_calls = 0 /\ login_calls = 0 /\ dump_calls = 0
        /\ sent = <<>> /\ outcomes = <<>>

\* only the message is blank
C7_Witness ==
    /\ pc = "exited"
    /\ ended_by = "exit"
    /\ \A name \in FileNames : files[name].exists
    /\ ~AllBlank(files[SESSION_TXT].data)
    /\ ~AllBlank(files[THREAD_FILE].data)
    /\ files[MESSAGE_FILE].data # <<>>
    /\ AllBlankRuns(files[MESSAGE_FILE].data)

\* C8: when load_config fails, the process ends before any network activity: no
\* GET of the keep-alive pinger and no platform call has happened.
C8_NoNetworkBeforeConfigAbort ==
    (pc = "exited" /\ ended_by = "exit" /\ ConfigIncomplete) =>
        /\ http_gets = FALSE
        /\ probe_calls = 0 /\ login_calls = 0
        /\ outcomes = <<>>

\* C9 as stated: a message source of more than 1000 characters gives a message of
\* exactly 1000 characters, and no message is longer than 1000.
C9_LongSourceGivesExactly1000 ==
    pc = "setup_client" =>
        /\ RleLen(message_text) <= 1000
        /\ RleLen(files[MESSAGE_FILE].data) > 1000 => RleLen(message_text) = 1000

\* the text between the first and the last character that is not whitespace
RECURSIVE BlankPrefix(_)
BlankPrefix(text) ==
    IF text = <<>> \/ Head(text).c \notin Whitespace THEN 0
    ELSE Head(text).n + BlankPrefix(Tail(text))
RECURSIVE BlankSuffix(_)
BlankSuffix(text) ==
    IF text = <<>> \/ Last(text).c \notin Whitespace THEN 0
    ELSE Last(text).n + BlankSuffix(SubSeq(text, 1, Len(text) - 1))
StrippedLength(text) ==
    IF AllBlankRuns(text) THEN 0
    ELSE RleLen(text) - BlankPrefix(text) - BlankSuffix(text)

\* C9, amended: a message source with more than 1000 characters left once its
\* surrounding whitespace is stripped gives a message of exactly 1000 characters;
\* a shorter one gives all its stripped text; no message is longer than 1000.
C9_LongStrippedTextGivesExactly1000 ==
    pc = "setup_client" =>
        LET stripped == StrippedLength(files[MESSAGE_FILE].data)
        IN  /\ RleLen(message_text) <= 1000
            /\ stripped > 1000 => RleLen(message_text) = 1000
            /\ stripped <= 1000 => RleLen(message_text) = stripped

C9_Witness ==
    /\ pc = "setup_client"
    /\ files[MESSAGE_FILE].data = <<Run(" ", 1), Run("h", 1001)>>
    /\ message_text = <<Run("h", 1000)>>

\* C10: when session.json exists and loading and probing it raises a
\* session-expired condition, setup_client calls the credential login exactly once;
\* if the login succeeds, it writes session.json afresh and returns the handle, and
\* the process is not ended by it.
C10_ExpiredSessionFallsBackToLogin ==
    probe_raised = "expired" =>
        /\ login_calls = 1
        /\ login_raised \in {"ok", "error"}
        /\ login_raised = "ok" =>
              /\ session_file = "fresh"
              /\ dump_calls = 1
              /\ cl = "authenticated"
              /\ ended_by \in {"none", "KeyboardInterrupt"}

C10_Witness ==
    /\ probe_raised = "expired"
    /\ login_raised = "ok"
    /\ pc = "cycle_start"
    /\ session_file = "fresh"
    /\ cl = "authenticated"


----------------------------------------------------------------------------
(* C11: every run that ends because of missing or empty configuration or   *)
(* because of an unrecoverable authentication failure (the credential      *)
(* login raises, or loading or probing the persisted session raises an     *)
(* exception outside the session-expired classes) ends with a non-zero     *)
(* exit status.                                                            *)
C11_FatalEndsNonZero ==
    (pc = "exited" /\ ended_by \in {"exit", "Exception"}) => exit_code # 0

----------------------------------------------------------------------------
(* C12: there is no re-authentication after the initial handle.  The       *)
(* credential login and the probe are each attempted at most once, and     *)
(* only in setup_client, before the first cycle and the first send; no     *)
(* step returns to setup_client.  A LoginRequired raised by direct_send is *)
(* followed only by send_message's own retry or return (or the interrupt): *)
(* never by a login, a probe or a write of session.json, and the send      *)
(* still makes at most MAX_RETRIES + 1 calls.                              *)
C12_NoReauthentication ==
    /\ [](login_calls <= 1 /\ probe_calls <= 1)
    /\ [][(login_calls' # login_calls \/ probe_calls' # probe_calls
              \/ pc' = "setup_client")
             => (pc \in {"load_config", "setup_client"} /\ cl = "none"
                   /\ cycle = 0 /\ sent = <<>> /\ outcomes = <<>>)]_vars
    /\ [][caught = "LoginRequired"
             => /\ login_calls' = login_calls
                /\ probe_calls' = probe_calls
                /\ dump_calls' = dump_calls
                /\ session_file' = session_file
                /\ cl' = cl
                /\ pc' \in {pc, "direct_send", "msg_sleep", "exited"}
                /\ Len(outcomes') <= MAX_RETRIES + 1]_vars

\* the retries of a send are used up on LoginRequired; the one login made
\* at start-up is still the only one
C12_Witness ==
    /\ pc = "send_returned"
    /\ caught = "LoginRequired"
    /\ Len(outcomes) = MAX_RETRIES + 1
    /\ ~result
    /\ login_calls = 1

----------------------------------------------------------------------------
(* C13: when the scheduling sequence is ended, after the authenticated     *)
(* handle was obtained, by KeyboardInterrupt or by an exception that       *)
(* reaches the outermost handler, no further send occurs and the current   *)
(* session is persisted (session.json is written) before the process ends. *)
C13_InterruptPersistsSession ==
    /\ [][(pc # "exited" /\ pc' = "exited" /\ cl = "authenticated"
              /\ ended_by' \in {"KeyboardInterrupt", "Exception"})
             => (dump_calls' = dump_calls + 1 /\ session_file' = "fresh")]_vars
    /\ [][pc = "exited" => (sent' = sent /\ outcomes' = outcomes /\ pc' = "exited")]_vars

----------------------------------------------------------------------------
\* The tokens of a text, read off the positions of its separators: the pieces
\* between one separator (or the start) and the next (or the end), in order
Cuts(text, seps) == {0, Len(text) + 1} \cup {i \in 1..Len(text) : text[i] \in seps}
TokensOf(text, seps) ==
    LET cuts == Cuts(text, seps)
        Cut(k) == CHOOSE c \in cuts : Cardinality({d \in cuts : d < c}) = k - 1
    IN  [k \in 1..(Cardinality(cuts) - 1) |-> SubSeq(text, Cut(k) + 1, Cut(k + 1) - 1)]
\* a token without its surrounding whitespace: from its first to its last
\* character that is not whitespace
Trimmed(token) ==
    LET inked == {i \in 1..Len(token) : token[i] \notin Whitespace}
    IN  IF inked = {} THEN <<>>
        ELSE SubSeq(token, CHOOSE i \in inked : \A j \in inked : i <= j,
                           CHOOSE i \in inked : \A j \in inked : i >= j)
NotEmpty(token) == token # <<>>
NonBlankTrimmed(tokens) ==
    SelectSeq([k \in 1..Len(tokens) |-> Trimmed(tokens[k])], NotEmpty)

(* C14: the destination list load_config returns is exactly the sequence   *)
(* of the non-blank tokens of the destination source, each stripped, in    *)
(* order, duplicates kept: the lines of gc.txt, or the comma-separated     *)
(* tokens of RENDER_THREAD_IDS when the file was seeded from it.           *)
C14_DestinationsAreSourceTokens ==
    pc = "setup_client" =>
        thread_ids =
            IF THREAD_FILE \in created
            THEN NonBlankTrimmed(TokensOf(environ["RENDER_THREAD_IDS"].val, {","}))
            ELSE NonBlankTrimmed(TokensOf(files[THREAD_FILE].data, {"\n"}))

(* C14, amended: as above, but the tokens of RENDER_THREAD_IDS are the     *)
(* pieces between its commas and its line breaks: a line break inside a    *)
(* comma-separated piece separates two destinations.                       *)
C14_DestinationsAreCommaOrLineTokens ==
    pc = "setup_client" =>
        thread_ids =
            IF THREAD_FILE \in created
            THEN NonBlankTrimmed(TokensOf(environ["RENDER_THREAD_IDS"].val, {",", "\n"}))
            ELSE NonBlankTrimmed(TokensOf(files[THREAD_FILE].data, {"\n"}))

\* seeded from " a,": one destination, the blank tokens dropped and the blank stripped
C14_Witness ==
    /\ pc = "setup_client"
    /\ THREAD_FILE \in created
    /\ environ["RENDER_THREAD_IDS"].val = <<" ", "a", ",">>
    /\ thread_ids = <<(<<"a">>)>>

----------------------------------------------------------------------------
(* C15: when session.json exists and loading or probing it raises an       *)
(* exception outside the session-expired classes, the run is aborted by    *)
(* that exception (printed by the outermost handler): the credential login *)
(* is never attempted, no authenticated handle is obtained, session.json   *)
(* is not written, no cycle starts and no send is issued.                  *)
C15_OtherProbeFailureAborts ==
    probe_raised = "other" =>
        /\ pc = "exited"
        /\ ended_by = "Exception"
        /\ login_calls = 0
        /\ login_raised = "none"
        /\ dump_calls = 0
        /\ session_file = "old"
        /\ cl = "none"
        /\ cycle = 0
        /\ sent = <<>>
        /\ outcomes = <<>>

C15_Witness ==
    /\ probe_raised = "other"
    /\ probe_calls = 1
    /\ pc = "exited"
    /\ pinger_pc = "running"

----------------------------------------------------------------------------
(* C16: the loop has no normal exit.  When every send and every sleep      *)
(* returns, then unless the process is ended (by the interrupt, or before  *)
(* the loop by a failed start-up), for every n from 1 (here up to          *)
(* MaxCycles) cycle n eventually starts and completes, every destination   *)
(* attempted in it, in order, and reported; and the sleep after the cycle  *)
(* returns to the start of the loop.  Once the handle is obtained the      *)
(* process ends by the interrupt only.                                     *)
C16_EveryCycleCompletes ==
    /\ \A n \in 1..MaxCycles :
          <>(\/ pc = "exited"
             \/ /\ pc = "cycle_sleep"
                /\ cycle = n
                /\ report.cycle = n
                /\ sent = thread_ids)
    /\ <>(pc = "exited" \/ (pc = "cycle_start" /\ cycle = MaxCycles))
    /\ [](cl = "authenticated" /\ pc = "exited" => ended_by = "KeyboardInterrupt")

\* the last cycle of the bound completes though none of its sends succeeded
C16_Witness ==
    /\ pc = "cycle_sleep"
    /\ cycle = MaxCycles
    /\ Len(sent) = 2
    /\ returned_true = 0

----------------------------------------------------------------------------
(* C17: whatever the outcomes of direct_send, one top-level send_message   *)
(* ends after at most MAX_RETRIES + 1 = 4 calls of direct_send and at most *)
(* MAX_RETRIES = 3 sleeps (one sleep between two consecutive calls), and   *)
(* it returns True exactly when its last direct_send succeeded.            *)
C17_SendIsBounded ==
    InSend =>
        /\ Len(outcomes) <= MAX_RETRIES + 1
        /\ Len(outcomes) <= 4
        /\ Len(sleeps) <= MAX_RETRIES
        /\ attempt <= MAX_RETRIES + 1
        /\ pc = "direct_send" => (Len(outcomes) = attempt - 1 /\ Len(sleeps) = attempt - 1)
        /\ pc = "backoff" => (Len(outcomes) = attempt /\ Len(sleeps) = attempt)
        /\ pc = "send_returned" =>
              /\ Len(outcomes) = attempt
              /\ Len(sleeps) = attempt - 1
              /\ result <=> (Last(outcomes) = "ok")

\* failures of both classes, then success at the fourth and last call
C17_Witness ==
    /\ pc = "send_returned"
    /\ outcomes = <<"client_error", "rate_limit", "client_error", "ok">>
    /\ Len(sleeps) = 3
    /\ result

----------------------------------------------------------------------------
(* C19: session.json is written only by the main sequence, and exactly     *)
(* when a credential login has just succeeded: the step that writes it is  *)
(* setup_client's, with a successful login, and a successful login always  *)
(* writes it.  A successful probe, a failed login, the sends and the       *)
(* background threads leave the file as it was.                            *)
C19_SessionWrittenOnLoginOnly ==
    /\ [][(session_file' # session_file \/ dump_calls' # dump_calls)
             => /\ pc = "setup_client"
                /\ login_calls' = login_calls + 1
                /\ login_raised' = "ok"
                /\ dump_calls' = dump_calls + 1
                /\ session_file' = "fresh"]_vars
    /\ [][(login_raised' = "ok" /\ login_raised # "ok")
             => (dump_calls' = dump_calls + 1 /\ session_file' = "fresh")]_vars
    /\ [](probe_raised = "ok" => (dump_calls = 0 /\ session_file = "old"))
    /\ [](login_raised = "error" => (dump_calls = 0 /\ session_file # "fresh"))

\* the expired session was replaced at the login; the sends and the pinger
\* that followed did not write it again
C19_Witness ==
    /\ probe_raised = "expired"
    /\ login_raised = "ok"
    /\ session_file = "fresh"
    /\ dump_calls = 1
    /\ pc = "send_returned"
    /\ http_gets

----------------------------------------------------------------------------
\* the environment variable ensure_files_exist reads for a file
EnvVarOf(name) ==
    IF name = SESSION_TXT THEN "RENDER_SESSION_ID"
    ELSE IF name = THREAD_FILE THEN "RENDER_THREAD_IDS"
    ELSE "RENDER_MESSAGE_TEXT"

(* C20: ensure_files_exist never overwrites an existing file: a file that  *)
(* exists before it exists after it with the same content, whatever the    *)
(* environment holds; and a file exists after it that did not before only  *)
(* when its environment variable is set.                                   *)
C20_ExistingFilesUntouched ==
    [][pc = "ensure_files" =>
          \A name \in FileNames :
              /\ files[name].exists => files'[name] = files[name]
              /\ (files'[name].exists /\ ~files[name].exists) => environ[EnvVarOf(name)].set]_vars

\* gc.txt and session.txt existed and their variables were set to something
\* else: both files are as they were
C20_Witness ==
    /\ pc = "start_web"
    /\ environ["RENDER_THREAD_IDS"] = Env(<<"c", ",", "d">>)
    /\ files[THREAD_FILE] = File(<<"a", "\n", "b">>)
    /\ environ["RENDER_SESSION_ID"] = Env(<<"u">>)
    /\ files[SESSION_TXT] = File(<<"t", "\n">>)
    /\ created = {}

====
